---- MODULE Spec2Model ----
(***************************************************************************)
(* Model of the serverless API of the text-to-speech application:         *)
(*   api/auth.js           registration and login against a remote        *)
(*                         key-value store (bcrypt digests, signed JWTs)  *)
(*   api/generate-audio.js, api/analyze-text.js, api/extract-text.js      *)
(*                         stateless proxies to an upstream HTTP service  *)
(*                                                                         *)
(* A handler invocation that awaits a remote answer is a request in       *)
(* flight; every await on a remote call is a point where other            *)
(* invocations interleave.  The remote store and the upstream services    *)
(* are the environment: what they answer is chosen nondeterministically.  *)
(* The store is taken to keep the contract the handler relies on: a GET    *)
(* answers the value the last SET of the key wrote, as the object written. *)
(***************************************************************************)
EXTENDS Bags, FiniteSets, Integers, Sequences, TLC

VARIABLES
    UPSTASH_KV_REST_API_URL,    \* process.env.KV_REST_API_URL   ("" = undefined)
    UPSTASH_KV_REST_API_TOKEN,  \* process.env.KV_REST_API_TOKEN ("" = undefined)
    JWT_SECRET,                 \* process.env.JWT_SECRET        ("" = undefined)
    store,      \* the remote key-value store: key -> record, Nil when absent
    inflight,   \* bag of auth handler invocations awaiting the store
    nextUuid,   \* crypto.randomUUID(): the next never-used identifier
    last,       \* the auth invocation that has just finished, until its response is sent
    issued,     \* history: username -> userIds answered with 201, in write order
    preq,       \* the proxy invocation awaiting its upstream service
    plast       \* the proxy invocation that finished most recently

authVars == <<UPSTASH_KV_REST_API_URL, UPSTASH_KV_REST_API_TOKEN, JWT_SECRET,
              store, inflight, nextUuid, last, issued>>
proxyVars == <<preq, plast>>
vars == <<UPSTASH_KV_REST_API_URL, UPSTASH_KV_REST_API_TOKEN, JWT_SECRET,
          store, inflight, nextUuid, last, issued, preq, plast>>

----------------------------------------------------------------------------
(* Bounds of the model *)

MaxInFlight == 2     \* auth invocations awaiting the store at the same time
MaxUuid == 2         \* identifiers randomUUID can hand out
MaxClock == 1        \* the clock reads 0 .. MaxClock seconds at signing time

----------------------------------------------------------------------------
(* Values *)

ValidUsernames == {"alice", "bob"}
Usernames == {""} \cup ValidUsernames          \* "" : empty or absent
Passwords == {"", "s3cret", "other"}           \* "" : empty or absent
Actions == {"register", "login", "delete"}
Methods == {"POST", "GET"}

NoBody == [present |-> FALSE, action |-> "", username |-> "", password |-> ""]
Bodies == {NoBody} \cup
          [present : {TRUE}, action : Actions, username : Usernames,
           password : Passwords]

\* the requests of the concurrent runs: every body that passes validation, and
\* one body for each way of failing it
ValidBodies == [present : {TRUE}, action : {"register", "login"},
                username : ValidUsernames, password : Passwords \ {""}]
InvalidBodies == {NoBody,
                  [present |-> TRUE, action |-> "register", username |-> "", password |-> "s3cret"],
                  [present |-> TRUE, action |-> "login", username |-> "alice", password |-> ""],
                  [present |-> TRUE, action |-> "delete", username |-> "alice", password |-> "s3cret"]}

NoHash == [salt |-> "", rounds |-> 0, pw |-> ""]
Nil == [userId |-> 0, hashedPassword |-> NoHash]     \* { result: null }
NoToken == [userId |-> 0, username |-> "", key |-> "", iat |-> 0, exp |-> 0]

\* the salt bcrypt draws; no handler reads it, one value stands for all
Salts == {"salt"}
Times == 0 .. MaxClock

\* what one call of the store can come to
\*   ok       2xx answer with a parseable body
\*   non2xx   non-2xx answer with a parseable body
\*   badjson  an answer whose body response.json() cannot parse
\*   network  fetch rejects
KvOutcomes == {"ok", "non2xx", "badjson", "network"}

----------------------------------------------------------------------------
(* auth.js: helpers *)

\* const userKey = `users:${username}`
userKeyAlice(username) == <<"users", "alice">>
userKey(username) == <<"users", username>>

StoreKeys == {userKey(u) : u \in ValidUsernames}

\* JavaScript truthiness of `existingUser.result` / `userData.result`
TruthyNever(result) == FALSE
Truthy(result) == result # Nil

\* !username || !password
MissingCredentials(body) == body.username = "" \/ body.password = ""

\* kvRequest: fetch rejects, response.json() rejects, or !response.ok throws
kvRequestThrowsNoOkCheck(outcome) == outcome \in {"badjson", "network"}
kvRequestThrows(outcome) == outcome \in {"non2xx", "badjson", "network"}

\* bcrypt.hash(password, 10): a digest that embeds its salt and cost
BcryptRounds == 10
bcryptHash(password, salt) == [salt |-> salt, rounds |-> BcryptRounds, pw |-> password]

\* bcrypt.compare(password, hashedPassword): recompute with the embedded salt
bcryptCompareAny(password, hashedPassword) == TRUE
bcryptCompare(password, hashedPassword) ==
    /\ hashedPassword # NoHash
    /\ [salt |-> hashedPassword.salt, rounds |-> hashedPassword.rounds, pw |-> password]
         = hashedPassword

\* crypto.randomUUID(): never returns the same identifier twice
randomUUID(n) == n

\* jwt.sign({ userId, username }, JWT_SECRET, { expiresIn: '1h' })
ExpiresIn == 3600
jwtSign(userId, username, secret, now) ==
    [userId |-> userId, username |-> username, key |-> secret, iat |-> now,
     exp |-> now + ExpiresIn]

\* jwt.sign throws when the secret is undefined
jwtSignThrows(secret) == secret = ""

\* the verifier of the jsonwebtoken library: signature and expiry
jwtVerify(token, secret, now) ==
    /\ token # NoToken
    /\ secret # ""
    /\ token.key = secret
    /\ now < token.exp

----------------------------------------------------------------------------
(* auth.js: responses *)

NoLast == [seen |-> FALSE, method |-> "", body |-> NoBody, status |-> 0, error |-> "",
           userId |-> 0, token |-> NoToken, gets |-> 0, sets |-> 0,
           getOutcome |-> "", setOutcome |-> "", result |-> Nil]

\* an invocation that ended before its first store call
Local(method, body, status, error) ==
    [NoLast EXCEPT !.seen = TRUE, !.method = method, !.body = body,
                   !.status = status, !.error = error]

\* an invocation that ended after store calls
Answer(r, status, error, userId, token) ==
    [seen |-> TRUE, method |-> "POST", body |-> r.body, status |-> status,
     error |-> error, userId |-> userId, token |-> token, gets |-> r.gets,
     sets |-> r.sets, getOutcome |-> r.getOutcome, setOutcome |-> r.setOutcome,
     result |-> r.result]

Remove(r) == inflight (-) SetToBag({r})

----------------------------------------------------------------------------
(* auth.js: the handler *)

NewRequest(body) ==
    [body |-> body, pc |-> "GET", gets |-> 1, sets |-> 0, getOutcome |-> "",
     setOutcome |-> "", result |-> Nil, userId |-> 0, hashedPassword |-> NoHash]

\* what the store can answer to this process: without a URL fetch rejects before
\* anything is sent, and the store refuses a call that carries no access token
Possible(outcome) ==
    /\ UPSTASH_KV_REST_API_URL = "" => outcome = "network"
    /\ UPSTASH_KV_REST_API_TOKEN = "" => outcome # "ok"

\* the invocation up to its first await: method check, destructuring of req.body,
\* validation, then the GET of the register or login branch
Receive(method, body) ==
    /\ ~last.seen
    /\ UNCHANGED <<UPSTASH_KV_REST_API_URL, UPSTASH_KV_REST_API_TOKEN, JWT_SECRET,
                   store, nextUuid, issued>>
    /\ UNCHANGED proxyVars
    /\ IF method # "POST" THEN
            /\ last' = Local(method, NoBody, 405, "Method Not Allowed")
            /\ UNCHANGED inflight
       ELSE IF ~body.present THEN
            \* `const { action, username, password } = req.body` throws outside
            \* the try block: the invocation rejects and sends no response
            /\ last' = Local(method, body, 0, "TypeError")
            /\ UNCHANGED inflight
       ELSE IF MissingCredentials(body) THEN
            /\ last' = Local(method, body, 400, "Username and password are required.")
            /\ UNCHANGED inflight
       ELSE IF body.action \in {"register", "login"} THEN
            /\ BagCardinality(inflight) < MaxInFlight
            /\ inflight' = inflight (+) SetToBag({NewRequest(body)})
            /\ UNCHANGED last
       ELSE
            /\ last' = Local(method, body, 400, "Invalid action specified...")
            /\ UNCHANGED inflight

\* the store answers the GET and the handler runs on to its next await or to
\* its response
GetResponse(r, outcome) ==
    /\ r \in BagToSet(inflight)
    /\ r.pc = "GET"
    /\ ~last.seen
    /\ Possible(outcome)
    /\ UNCHANGED <<UPSTASH_KV_REST_API_URL, UPSTASH_KV_REST_API_TOKEN, JWT_SECRET,
                   store, issued>>
    /\ UNCHANGED proxyVars
    /\ LET \* data.result: the stored record, undefined in anything but a 2xx answer
           result == IF outcome = "ok" THEN store[userKey(r.body.username)] ELSE Nil
           got == [r EXCEPT !.getOutcome = outcome, !.result = result]
       IN
       IF kvRequestThrows(outcome) THEN
            /\ last' = Answer(got, 500, "Internal server error during authentication.",
                              0, NoToken)
            /\ inflight' = Remove(r)
            /\ UNCHANGED nextUuid
       ELSE IF r.body.action = "register" THEN
            IF Truthy(result) THEN
                 /\ last' = Answer(got, 409, "User already exists.", 0, NoToken)
                 /\ inflight' = Remove(r)
                 /\ UNCHANGED nextUuid
            ELSE /\ nextUuid <= MaxUuid
                 /\ \E salt \in Salts :
                       inflight' = Remove(r) (+) SetToBag({
                           [got EXCEPT !.pc = "SET", !.sets = @ + 1,
                                       !.userId = randomUUID(nextUuid),
                                       !.hashedPassword = bcryptHash(r.body.password, salt)]})
                 /\ nextUuid' = nextUuid + 1
                 /\ UNCHANGED last
       ELSE
            /\ inflight' = Remove(r)
            /\ UNCHANGED nextUuid
            /\ IF ~Truthy(result) THEN
                    last' = Answer(got, 401, "Invalid username or password.", 0, NoToken)
               ELSE IF ~bcryptCompare(r.body.password, result.hashedPassword) THEN
                    last' = Answer(got, 401, "Invalid username or password.", 0, NoToken)
               ELSE IF jwtSignThrows(JWT_SECRET) THEN
                    last' = Answer(got, 500, "Internal server error during authentication.",
                                   0, NoToken)
               ELSE \E now \in Times :
                    last' = Answer(got, 200, "", result.userId,
                                   jwtSign(result.userId, r.body.username, JWT_SECRET, now))

\* the store's SET: the value replaces whatever the key held
kvSetIfAbsent(s, key, value) == IF s[key] = Nil THEN [s EXCEPT ![key] = value] ELSE s
kvSet(s, key, value) == [s EXCEPT ![key] = value]

\* the store answers the SET of a register; `applied` tells whether the write
\* took place: always when the store answered 2xx, never when it refused, and
\* either way when the answer was lost or unreadable
SetResponse(r, outcome, applied) ==
    /\ r \in BagToSet(inflight)
    /\ r.pc = "SET"
    /\ ~last.seen
    /\ Possible(outcome)
    /\ outcome = "ok" => applied
    /\ outcome = "non2xx" => ~applied
    /\ UNCHANGED <<UPSTASH_KV_REST_API_URL, UPSTASH_KV_REST_API_TOKEN, JWT_SECRET,
                   nextUuid>>
    /\ UNCHANGED proxyVars
    /\ store' = IF applied
                THEN kvSet(store, userKey(r.body.username),
                           [userId |-> r.userId, hashedPassword |-> r.hashedPassword])
                ELSE store
    /\ inflight' = Remove(r)
    /\ LET got == [r EXCEPT !.setOutcome = outcome] IN
       IF kvRequestThrows(outcome) THEN
            /\ last' = Answer(got, 500, "Internal server error during authentication.",
                              0, NoToken)
            /\ UNCHANGED issued
       ELSE /\ last' = Answer(got, 201, "", r.userId, NoToken)
            /\ issued' = [issued EXCEPT ![r.body.username] = Append(@, r.userId)]

\* the process starts with its three settings read from the environment
InitState ==
    /\ store = [k \in StoreKeys |-> Nil]
    /\ inflight = EmptyBag
    /\ nextUuid = 1
    /\ last = NoLast
    /\ issued = [u \in ValidUsernames |-> << >>]

\* the platform sends the finished invocation's response (or reports its
\* rejection) and forgets the invocation.  The other steps wait for it, which
\* orders no store call: this step reads and writes `last` alone.
Respond ==
    /\ last.seen
    /\ last' = NoLast
    /\ UNCHANGED <<UPSTASH_KV_REST_API_URL, UPSTASH_KV_REST_API_TOKEN, JWT_SECRET,
                   store, inflight, nextUuid, issued>>
    /\ UNCHANGED proxyVars

----------------------------------------------------------------------------
(* generate-audio.js, analyze-text.js, extract-text.js: the proxy handlers *)

Handlers == {"generate-audio", "analyze-text", "extract-text"}
ProxyMethods == {"OPTIONS", "GET", "POST"}
ApiKeys == {"", "sk-key"}                      \* "" : the variable is not set

\* text.length > 4096
MaxTextLength == 4096

\* a string as the sequence of its characters
Blank == <<" ", " ">>
Words == <<"h", "i">>

RECURSIVE TrimStart(_)
TrimStart(str) ==
    IF str = << >> THEN << >>
    ELSE IF Head(str) = " " THEN TrimStart(Tail(str)) ELSE str

RECURSIVE TrimEnd(_)
TrimEnd(str) ==
    IF str = << >> THEN << >>
    ELSE IF str[Len(str)] = " " THEN TrimEnd(SubSeq(str, 1, Len(str) - 1)) ELSE str

\* String.prototype.trim
trim(str) == TrimEnd(TrimStart(str))

\* request.body as each handler reads it; textLength stands for `text`,
\* promptType for `typeof prompt`
NoProxyBody == [present |-> FALSE, textLength |-> 0, voice |-> "", promptType |-> "undefined",
                prompt |-> << >>, pdfData |-> ""]
AudioBodies == {[NoProxyBody EXCEPT !.present = TRUE, !.textLength = n, !.voice = v] :
                   n \in {0, 1, MaxTextLength, MaxTextLength + 1}, v \in {"", "alloy"}}
PromptBodies == {[NoProxyBody EXCEPT !.present = TRUE, !.promptType = "number"]} \cup
                {[NoProxyBody EXCEPT !.present = TRUE, !.promptType = "string", !.prompt = q] :
                   q \in {<< >>, Blank, Words}} \cup
                {[NoProxyBody EXCEPT !.present = TRUE]}
PdfBodies == {[NoProxyBody EXCEPT !.present = TRUE, !.pdfData = d] : d \in {"", "JVBERi0"}}

ProxyBodies(handler) ==
    {NoProxyBody} \cup
    (IF handler = "generate-audio" THEN AudioBodies
     ELSE IF handler = "analyze-text" THEN PromptBodies
     ELSE PdfBodies)

\* the validation of each handler's input
\*   generate-audio: !text || !voice, then text.length > 4096
\*   analyze-text:   !prompt || typeof prompt !== 'string' || prompt.trim().length === 0
\*   extract-text:   !pdfData
MissingInput(handler, body) ==
    IF handler = "generate-audio" THEN body.textLength = 0 \/ body.voice = ""
    ELSE IF handler = "analyze-text" THEN
         \/ body.promptType = "undefined"
         \/ body.promptType = "string" /\ body.prompt = << >>
         \/ body.promptType # "string"
         \/ Len(trim(body.prompt)) = 0
    ELSE body.pdfData = ""

TooLong(handler, body) ==
    handler = "generate-audio" /\ body.textLength > MaxTextLength

MissingInputError(handler) ==
    IF handler = "generate-audio" THEN "Missing required parameters: text and voice."
    ELSE IF handler = "analyze-text" THEN "A valid text prompt is required."
    ELSE "No PDF data provided."

\* what the upstream service can come to
\*   fetch     "rejected" when the call itself fails
\*   status    the HTTP status of its answer
\*   body      "json" when the body parses (for generate-audio: when the bytes
\*             can be read), "unreadable" when reading it rejects
\*   message   error.message of an error body, "" when it carries none
\*   text      the generated text of a Gemini answer, "" when there is none
NoUpstream == [fetch |-> "", status |-> 0, body |-> "", message |-> "", text |-> ""]
UpstreamStatuses == {200, 204, 400, 429, 500}
UpstreamAnswers ==
    {[NoUpstream EXCEPT !.fetch = "rejected"]} \cup
    {[NoUpstream EXCEPT !.fetch = "resolved", !.status = st, !.body = "unreadable"] :
        st \in UpstreamStatuses} \cup
    {[NoUpstream EXCEPT !.fetch = "resolved", !.status = st, !.body = "json", !.message = m] :
        st \in UpstreamStatuses \ {200, 204}, m \in {"", "quota exceeded"}} \cup
    {[NoUpstream EXCEPT !.fetch = "resolved", !.status = st, !.body = "json", !.text = t] :
        st \in {200, 204}, t \in {"", "summary"}}

\* Response.ok
ok(status) == 200 <= status /\ status <= 299

\* response.status(upstream.status): the status of the upstream answer is passed on
passStatusAs500(status) == 500
passStatus(status) == status

ServiceName(handler) ==
    IF handler = "generate-audio" THEN "OpenAI"
    ELSE IF handler = "analyze-text" THEN "Gemini"
    ELSE "Vision"

\* errorData.error?.message || 'An unknown error occurred with the ... API.'
errorMessage(handler, upstream) ==
    IF upstream.message # "" THEN upstream.message
    ELSE <<"An unknown error occurred with the API of", ServiceName(handler)>>

\* `${service} API request failed: ${errorMessage}`
RequestFailed(handler, upstream) ==
    <<ServiceName(handler), "API request failed:", errorMessage(handler, upstream)>>

NoPreq == [waiting |-> FALSE, handler |-> "", apiKey |-> "", body |-> NoProxyBody,
           outbound |-> 0]
NoPlast == [seen |-> FALSE, handler |-> "", method |-> "", apiKey |-> "",
            body |-> NoProxyBody, upstream |-> NoUpstream, status |-> 0,
            error |-> << >>, payload |-> "", outbound |-> 0]

\* an invocation that ended before calling the upstream service
ProxyLocal(handler, method, apiKey, body, status, error) ==
    [NoPlast EXCEPT !.seen = TRUE, !.handler = handler, !.method = method,
                    !.apiKey = apiKey, !.body = body, !.status = status,
                    !.error = <<error>>]

\* an invocation that ended after the upstream service answered
ProxyAnswer(upstream, status, error, payload) ==
    [seen |-> TRUE, handler |-> preq.handler, method |-> "POST", apiKey |-> preq.apiKey,
     body |-> preq.body, upstream |-> upstream, status |-> status, error |-> error,
     payload |-> payload, outbound |-> preq.outbound]

\* the invocation up to its fetch: CORS preflight, method check, API key,
\* input validation, then the outbound request
ProxyReceive(handler, method, apiKey, body) ==
    /\ ~preq.waiting
    /\ UNCHANGED authVars
    /\ IF method = "OPTIONS" THEN
            /\ plast' = ProxyLocal(handler, method, "", NoProxyBody, 200, "")
            /\ UNCHANGED preq
       ELSE IF method # "POST" THEN
            /\ plast' = ProxyLocal(handler, method, "", NoProxyBody, 405, "Method Not Allowed")
            /\ UNCHANGED preq
       ELSE IF apiKey = "" THEN
            /\ plast' = ProxyLocal(handler, method, apiKey, NoProxyBody, 500,
                                   "API key is not configured on the server.")
            /\ UNCHANGED preq
       ELSE IF ~body.present THEN
            \* destructuring request.body throws inside the try block
            /\ plast' = ProxyLocal(handler, method, apiKey, body, 500,
                                   "An internal server error occurred.")
            /\ UNCHANGED preq
       ELSE IF MissingInput(handler, body) THEN
            /\ plast' = ProxyLocal(handler, method, apiKey, body, 400,
                                   MissingInputError(handler))
            /\ UNCHANGED preq
       ELSE IF TooLong(handler, body) THEN
            /\ plast' = ProxyLocal(handler, method, apiKey, body, 400,
                                   "Input text is too long.")
            /\ UNCHANGED preq
       ELSE
            /\ preq' = [waiting |-> TRUE, handler |-> handler, apiKey |-> apiKey,
                        body |-> body, outbound |-> 1]
            /\ UNCHANGED plast

\* the upstream service answers (or the call fails) and the handler responds
ProxyUpstream(upstream) ==
    /\ preq.waiting
    /\ UNCHANGED authVars
    /\ preq' = NoPreq
    /\ IF upstream.fetch = "rejected" THEN
            plast' = ProxyAnswer(upstream, 500, <<"An internal server error occurred.">>, "")
       ELSE IF ~ok(upstream.status) THEN
            IF upstream.body = "unreadable" THEN
                 plast' = ProxyAnswer(upstream, 500,
                                      <<"An internal server error occurred.">>, "")
            ELSE plast' = ProxyAnswer(upstream, passStatus(upstream.status),
                                      RequestFailed(preq.handler, upstream), "")
       ELSE IF upstream.body = "unreadable" THEN
            plast' = ProxyAnswer(upstream, 500, <<"An internal server error occurred.">>, "")
       ELSE IF preq.handler = "generate-audio" THEN
            plast' = ProxyAnswer(upstream, 200, << >>, "audio/mpeg")
       ELSE IF preq.handler = "analyze-text" THEN
            IF upstream.text = "" THEN
                 plast' = ProxyAnswer(upstream, 500,
                                      <<"The model's response was empty or blocked.">>, "")
            ELSE plast' = ProxyAnswer(upstream, 200, << >>, upstream.text)
       ELSE plast' = ProxyAnswer(upstream, 200, << >>, "visionData")

InitProxy ==
    /\ preq = NoPreq
    /\ plast = NoPlast

\* a deployment with its environment fully configured
Init ==
    /\ UPSTASH_KV_REST_API_URL = "https://kv"
    /\ UPSTASH_KV_REST_API_TOKEN = "kvtoken"
    /\ JWT_SECRET = "secret"
    /\ InitState
    /\ InitProxy

\* a deployment in which any of the three settings may be missing
InitAnyEnv ==
    /\ UPSTASH_KV_REST_API_URL \in {"", "https://kv"}
    /\ UPSTASH_KV_REST_API_TOKEN \in {"", "kvtoken"}
    /\ JWT_SECRET \in {"", "secret"}
    /\ InitState
    /\ InitProxy

Next ==
    \/ \E method \in Methods, body \in ValidBodies \cup InvalidBodies :
          Receive(method, body)
    \/ \E r \in BagToSet(inflight), outcome \in KvOutcomes : GetResponse(r, outcome)
    \/ \E r \in BagToSet(inflight), outcome \in KvOutcomes, applied \in BOOLEAN :
          SetResponse(r, outcome, applied)
    \/ Respond

Spec == Init /\ [][Next]_vars

\* invocations one after another: a request arrives only when none is in flight
NextSeq ==
    \/ \E method \in Methods, body \in Bodies :
          inflight = EmptyBag /\ Receive(method, body)
    \/ \E r \in BagToSet(inflight), outcome \in KvOutcomes : GetResponse(r, outcome)
    \/ \E r \in BagToSet(inflight), outcome \in KvOutcomes, applied \in BOOLEAN :
          SetResponse(r, outcome, applied)
    \/ Respond

SpecSeq == InitAnyEnv /\ [][NextSeq]_vars

\* the proxy handlers, one invocation at a time
NextProxy ==
    \/ \E handler \in Handlers, method \in ProxyMethods, apiKey \in ApiKeys :
          \E body \in ProxyBodies(handler) : ProxyReceive(handler, method, apiKey, body)
    \/ \E upstream \in UpstreamAnswers : ProxyUpstream(upstream)

SpecProxy == Init /\ [][NextProxy]_vars

----------------------------------------------------------------------------
(* Properties *)

Failed(outcome) == outcome \in {"non2xx", "badjson", "network"}
Stored(u) == store[<<"users", u>>]
Range(seq) == {seq[i] : i \in DOMAIN seq}
IsRegister(l) == l.seen /\ l.gets >= 1 /\ l.body.action = "register"
IsLogin(l) == l.seen /\ l.gets >= 1 /\ l.body.action = "login"

\* C1: when the register requests for a username run one after another, at most
\* one of them is answered 201 and the record it wrote is the record the store
\* keeps; a register whose store calls all succeed is answered 201 with a
\* userId (and its record is stored) if it read no record, and 409 'User
\* already exists.' without sending a SET if it read one, whatever its password.
C1_RegisterOnce ==
    /\ \A u \in ValidUsernames :
          /\ Len(issued[u]) <= 1
          /\ issued[u] # << >> => Stored(u).userId = issued[u][1]
    /\ (IsRegister(last) /\ last.getOutcome = "ok" /\ last.setOutcome \in {"", "ok"}) =>
          IF last.result = Nil
          THEN /\ last.status = 201
               /\ last.userId # 0
               /\ issued[last.body.username] = <<last.userId>>
               /\ Stored(last.body.username).userId = last.userId
               /\ Stored(last.body.username).hashedPassword.pw = last.body.password
          ELSE /\ last.status = 409
               /\ last.error = "User already exists."
               /\ last.sets = 0
               /\ last.userId = 0
               /\ Stored(last.body.username) = last.result

\* a second registration of a registered username, with another password, answered 409
C1_Witness ==
    /\ IsRegister(last)
    /\ last.status = 409
    /\ issued[last.body.username] # << >>
    /\ Stored(last.body.username).hashedPassword.pw # last.body.password

\* C2: after the one registration of (u, p) answered 201 with userId i, a login
\* (u, p) whose store call succeeds is answered 200 with userId i and a token
\* that carries i and u, is signed with the secret of the process, expires one
\* hour after it was issued and is accepted by the verifier until then.
C2_LoginAfterRegister ==
    (/\ IsLogin(last)
     /\ last.getOutcome = "ok"
     /\ Len(issued[last.body.username]) = 1
     /\ Stored(last.body.username).userId = issued[last.body.username][1]
     /\ Stored(last.body.username).hashedPassword.pw = last.body.password)
    => /\ last.status = 200
       /\ last.userId = issued[last.body.username][1]
       /\ last.token.userId = last.userId
       /\ last.token.username = last.body.username
       /\ last.token.key = JWT_SECRET
       /\ last.token.exp = last.token.iat + 3600
       /\ \A now \in {last.token.iat, last.token.exp - 1} :
             jwtVerify(last.token, JWT_SECRET, now)

\* C3: a login whose store call succeeds and that finds either no record or a
\* record made from another password is answered with the same response in
\* both cases: 401, 'Invalid username or password.', no token, no userId.
C3_UniformUnauthorized ==
    (/\ IsLogin(last)
     /\ last.getOutcome = "ok"
     /\ \/ last.result = Nil
        \/ last.result.hashedPassword.pw # last.body.password)
    => /\ last.status = 401
       /\ last.error = "Invalid username or password."
       /\ last.token = NoToken
       /\ last.userId = 0

\* a login with a registered username and a wrong password
C3_Witness ==
    /\ IsLogin(last)
    /\ last.getOutcome = "ok"
    /\ last.result # Nil
    /\ last.result.hashedPassword.pw # last.body.password
    /\ last.status = 401

\* C4: once the store holds a record under a key, that record never changes.
C4_RecordWrittenOnce ==
    [][\A k \in StoreKeys : store[k] # Nil => store'[k] = store[k]]_vars

\* C5: validation is local and ordered: not POST gives 405; otherwise a missing
\* username or password gives 400 'Username and password are required.'
\* whatever the action; otherwise an action other than register and login
\* gives 400 'Invalid action specified...'; none of them calls the store,
\* hashes a password or issues a token.
C5_LocalValidation ==
    last.seen =>
       IF last.method # "POST" THEN
            /\ last.status = 405 /\ last.error = "Method Not Allowed"
            /\ last.gets = 0 /\ last.sets = 0 /\ last.token = NoToken
       ELSE IF ~last.body.present \/ last.body.username = "" \/ last.body.password = "" THEN
            /\ last.status = 400 /\ last.error = "Username and password are required."
            /\ last.gets = 0 /\ last.sets = 0 /\ last.token = NoToken
       ELSE IF last.body.action \notin {"register", "login"} THEN
            /\ last.status = 400 /\ last.error = "Invalid action specified..."
            /\ last.gets = 0 /\ last.sets = 0 /\ last.token = NoToken
       ELSE last.gets >= 1

\* C5 for the requests that carry a body object: the same statement holds
C5_LocalValidationOfBodies ==
    (last.seen /\ (last.method # "POST" \/ last.body.present)) => C5_LocalValidation

\* C6: a register or login that passed validation calls GET at most once and
\* SET at most once; if a call of the store failed it is answered 500; and a
\* register whose GET failed sends no SET.
C6_StoreFailure ==
    /\ \A r \in BagToSet(inflight) :
          /\ r.gets = 1
          /\ r.sets <= 1
          /\ r.sets = 1 => r.getOutcome = "ok"
    /\ (last.seen /\ last.gets >= 1) =>
          /\ last.gets = 1
          /\ last.sets <= 1
          /\ (Failed(last.getOutcome) \/ Failed(last.setOutcome)) => last.status = 500
          /\ last.status \in {200, 201} =>
                last.getOutcome = "ok" /\ last.setOutcome \in {"", "ok"}
          /\ Failed(last.getOutcome) => last.sets = 0

\* a register whose SET failed after its GET succeeded, answered 500
C6_Witness ==
    /\ IsRegister(last)
    /\ last.getOutcome = "ok"
    /\ Failed(last.setOutcome)
    /\ last.status = 500

\* C7: with the signing secret, the store URL or the store token missing, no
\* register or login reaches the store, no record is written, no request is
\* answered 201 or 200 and no token is issued.
C7_FailFast ==
    (UPSTASH_KV_REST_API_URL = "" \/ UPSTASH_KV_REST_API_TOKEN = "" \/ JWT_SECRET = "")
    => /\ \A k \in StoreKeys : store[k] = Nil
       /\ UPSTASH_KV_REST_API_URL # "" => inflight = EmptyBag
       /\ last.seen =>
             /\ UPSTASH_KV_REST_API_URL # "" => last.gets = 0 /\ last.sets = 0
             /\ last.status \notin {200, 201}
             /\ last.token = NoToken

\* C8: a valid POST with the API key set causes one outbound request; a non-2xx
\* answer with a parseable body is answered with the same status and an error
\* that carries the upstream message; a failed call or an unreadable body is
\* answered 500; and 200 is answered only to a 2xx upstream answer.
C8_ProxyErrors ==
    /\ preq.waiting => preq.outbound = 1
    /\ plast.seen => plast.outbound <= 1
    /\ (plast.seen /\ plast.outbound = 1) =>
          /\ plast.method = "POST" /\ plast.apiKey # ""
          /\ (/\ plast.upstream.fetch = "resolved"
              /\ plast.upstream.body = "json"
              /\ ~(200 <= plast.upstream.status /\ plast.upstream.status <= 299))
             => /\ plast.status = plast.upstream.status
                /\ plast.upstream.message # "" =>
                      plast.upstream.message \in Range(plast.error)
          /\ (plast.upstream.fetch = "rejected" \/ plast.upstream.body = "unreadable")
             => plast.status = 500
    /\ (plast.seen /\ plast.method = "POST" /\ plast.status = 200) =>
          /\ plast.outbound = 1
          /\ plast.upstream.fetch = "resolved"
          /\ 200 <= plast.upstream.status /\ plast.upstream.status <= 299

\* an upstream 429 with an error message, passed on
C8_Witness ==
    /\ plast.seen
    /\ plast.upstream.status = 429
    /\ plast.upstream.message = "quota exceeded"
    /\ plast.status = 429

\* C9: when two registers of one username were both answered 201, their
\* userIds differ and the store holds the record of the later write, not the
\* one whose userId the earlier registrant was given; a login answered 200 is
\* the one whose password matches the stored digest, and it returns the userId
\* of the stored record.
C9_LostRegistration ==
    /\ \A u \in ValidUsernames :
          /\ \A i, j \in DOMAIN issued[u] : i # j => issued[u][i] # issued[u][j]
          /\ (Len(issued[u]) >= 2 /\ Stored(u).userId \in Range(issued[u]))
             => /\ Stored(u).userId = issued[u][Len(issued[u])]
                /\ Stored(u).userId # issued[u][1]
    /\ (IsLogin(last) /\ last.status = 200) =>
          /\ last.userId = Stored(last.body.username).userId
          /\ last.token.userId = Stored(last.body.username).userId
          /\ Stored(last.body.username).hashedPassword.pw = last.body.password

\* two registers of one username with different passwords both answered 201,
\* then a login with the later password answered 200 with the later userId
C9_Witness ==
    \E u \in ValidUsernames :
       /\ Len(issued[u]) = 2
       /\ IsLogin(last)
       /\ last.body.username = u
       /\ last.status = 200
       /\ last.userId = issued[u][2]

\* C10: the store changes only in the step in which the SET of a register that
\* read no record is answered, and only under the key users:u of that
\* register; no step of a login, and no step of a register answered 409,
\* changes it or sends a SET.
C10_OnlyRegisterWrites ==
    [][/\ store' # store =>
             \E r \in BagToSet(inflight) :
                /\ r.body.action = "register"
                /\ r.pc = "SET"
                /\ r.getOutcome = "ok" /\ r.result = Nil
                /\ CopiesIn(r, inflight') < CopiesIn(r, inflight)
                /\ \A k \in StoreKeys :
                      k # <<"users", r.body.username>> => store'[k] = store[k]
       /\ (last'.seen /\ ~last.seen /\ (last'.body.action = "login" \/ last'.status = 409))
             => last'.sets = 0 /\ store' = store
       /\ \A r \in BagToSet(inflight') : r.body.action = "login" => r.sets = 0
      ]_vars

\* a login answered 200 while the store holds a record
C10_Witness ==
    /\ IsLogin(last)
    /\ last.status = 200
    /\ \E k \in StoreKeys : store[k] # Nil

====
